---- MODULE Spec2Model ----
(***************************************************************************)
(* A model of sqlalchemy_jsonapi/declarative/serializer.py: the class      *)
(* JSONAPISerializer, its constructor and its four rendering methods.      *)
(*                                                                         *)
(* Strings are sequences of one-character strings, so that the name        *)
(* transformation dasherize(underscore(x)), str() and isoformat() are      *)
(* computed character by character.  Python values are records tagged with *)
(* their type in the field "kind".  A dict is the sequence of its items in *)
(* insertion order.  A call's outcome is a record [exc, val]: exc is the   *)
(* name of the exception that left the call, or "none".                    *)
(***************************************************************************)
EXTENDS Integers, Sequences, FiniteSets, TLC

\* ------------------------------------------------------------------------
\* Bounds of the model.

\* Longest `fields` list a serializer class declares.
MaxFields == 3

\* Longest collection handed to serialize.
MaxLen == 2

\* ------------------------------------------------------------------------
\* Characters and strings.

Uppers == <<"A", "B", "C", "D", "E", "F", "G", "H", "I", "J", "K", "L", "M",
            "N", "O", "P", "Q", "R", "S", "T", "U", "V", "W", "X", "Y", "Z">>

Lowers == <<"a", "b", "c", "d", "e", "f", "g", "h", "i", "j", "k", "l", "m",
            "n", "o", "p", "q", "r", "s", "t", "u", "v", "w", "x", "y", "z">>

Digits == <<"0", "1", "2", "3", "4", "5", "6", "7", "8", "9">>

Range(s) == {s[i] : i \in DOMAIN s}

IsUpper(c) == c \in Range(Uppers)

IsLower(c) == c \in Range(Lowers)

IsDigit(c) == c \in Range(Digits)

\* str.lower() on one character.
LowerChar(c) ==
    IF IsUpper(c) THEN Lowers[CHOOSE i \in DOMAIN Uppers : Uppers[i] = c] ELSE c

\* str.lower()
StrLower(w) == [i \in DOMAIN w |-> LowerChar(w[i])]

\* str.replace(old, new) for one-character old and new.
StrReplace(w, old, new) == [i \in DOMAIN w |-> IF w[i] = old THEN new ELSE w[i]]

\* The last index of the run of upper-case letters that starts at i.
RECURSIVE UpperRunEnd(_, _)
UpperRunEnd(w, i) ==
    IF i < Len(w) /\ IsUpper(w[i + 1]) THEN UpperRunEnd(w, i + 1) ELSE i

\* re.sub(r"([A-Z]+)([A-Z][a-z])", r'\1_\2', word), scanning from index i.
\* A match starts at i exactly when the upper-case run from i has at least
\* two letters and a lower-case letter follows it: the greedy group takes
\* the run but its last letter, which begins the second group.
RECURSIVE SubAcronym(_, _)
SubAcronym(w, i) ==
    IF i > Len(w) THEN <<>>
    ELSE LET k == UpperRunEnd(w, i)
         IN  IF IsUpper(w[i]) /\ k > i /\ k < Len(w) /\ IsLower(w[k + 1])
             THEN SubSeq(w, i, k - 1) \o <<"_", w[k], w[k + 1]>>
                      \o SubAcronym(w, k + 2)
             ELSE <<w[i]>> \o SubAcronym(w, i + 1)

\* re.sub(r"([a-z\d])([A-Z])", r'\1_\2', word), scanning from index i.
RECURSIVE SubCamel(_, _)
SubCamel(w, i) ==
    IF i > Len(w) THEN <<>>
    ELSE IF i < Len(w) /\ (IsLower(w[i]) \/ IsDigit(w[i])) /\ IsUpper(w[i + 1])
         THEN <<w[i], "_", w[i + 1]>> \o SubCamel(w, i + 2)
         ELSE <<w[i]>> \o SubCamel(w, i + 1)

\* inflection.underscore
underscore(word) ==
    StrLower(StrReplace(SubCamel(SubAcronym(word, 1), 1), "-", "_"))

\* inflection.dasherize
dasherize(word) == StrReplace(word, "_", "-")

\* ------------------------------------------------------------------------
\* Python values.

NoneV == [kind |-> "NoneType", v |-> <<>>]

IntV(n) == [kind |-> "int", v |-> <<n>>]

BoolV(b) == [kind |-> "bool", v |-> <<b>>]

StrV(s) == [kind |-> "str", v |-> s]

\* datetime.datetime(y, mo, d, h, mi, s, us, tzinfo); tz is <<offset>>, the
\* UTC offset in minutes, or <<>> for a naive value.
DateTimeV(y, mo, d, h, mi, s, us, tz) ==
    [kind |-> "datetime", v |-> <<y, mo, d, h, mi, s, us, tz>>]

\* datetime.date(y, mo, d)
DateV(y, mo, d) == [kind |-> "date", v |-> <<y, mo, d>>]

\* datetime.time(h, mi, s)
TimeV(h, mi, s) == [kind |-> "time", v |-> <<h, mi, s>>]

\* The decimal digits of n >= 0, most significant first.
RECURSIVE DecDigits(_)
DecDigits(n) ==
    IF n < 10 THEN <<Digits[n + 1]>>
    ELSE DecDigits(n \div 10) \o <<Digits[(n % 10) + 1]>>

\* n >= 0 in decimal, zero-padded to the given width ("%02d" and the like).
RECURSIVE ZeroPad(_, _)
ZeroPad(s, width) == IF Len(s) >= width THEN s ELSE ZeroPad(<<"0">> \o s, width)

Dec(n, width) == ZeroPad(DecDigits(n), width)

\* str(n) for an int.
IntStr(n) == IF n < 0 THEN <<"-">> \o DecDigits(0 - n) ELSE DecDigits(n)

\* datetime.datetime.isoformat(): YYYY-MM-DDTHH:MM:SS[.ffffff][+HH:MM]
isoformat(d) ==
    LET y == d.v[1]  mo == d.v[2]  dd == d.v[3]
        h == d.v[4]  mi == d.v[5]  s == d.v[6]
        us == d.v[7] tz == d.v[8]
        off == IF tz[1] < 0 THEN 0 - tz[1] ELSE tz[1]
    IN  Dec(y, 4) \o <<"-">> \o Dec(mo, 2) \o <<"-">> \o Dec(dd, 2) \o <<"T">>
        \o Dec(h, 2) \o <<":">> \o Dec(mi, 2) \o <<":">> \o Dec(s, 2)
        \o (IF us # 0 THEN <<".">> \o Dec(us, 6) ELSE <<>>)
        \o (IF tz = <<>> THEN <<>>
            ELSE <<IF tz[1] < 0 THEN "-" ELSE "+">>
                 \o Dec(off \div 60, 2) \o <<":">> \o Dec(off % 60, 2))

\* str(value) and '{}'.format(value) for the values a primary key takes.
Str(value) ==
    CASE value.kind = "str" -> value.v
      [] value.kind = "int" -> IntStr(value.v[1])
      [] value.kind = "NoneType" -> <<"N", "o", "n", "e">>

\* ------------------------------------------------------------------------
\* Python dicts, in insertion order: a sequence of <<key, value>> items.

DictKeys(d) == [i \in DOMAIN d |-> d[i][1]]

DictHas(d, k) == \E i \in DOMAIN d : d[i][1] = k

DictGet(d, k) == d[CHOOSE i \in DOMAIN d : d[i][1] = k][2]

\* d.setdefault(k, v) in place of d[k] = v: the first value of a key stays.
DictSetDefault(d, k, v) == IF DictHas(d, k) THEN d ELSE Append(d, <<k, v>>)

\* d[k] = v: a new key goes last, a key already present keeps its place.
DictSet(d, k, v) ==
    IF DictHas(d, k)
    THEN [i \in DOMAIN d |-> IF d[i][1] = k THEN <<k, v>> ELSE d[i]]
    ELSE Append(d, <<k, v>>)

\* A call's outcome.
Ok(val) == [exc |-> "none", val |-> val]

Raise(kind) == [exc |-> kind, val |-> <<>>]

\* ------------------------------------------------------------------------
\* The entity schema the serializer consumes: model classes, their
\* __tablename__, their __mapper__.relationships, and attribute names.

f_id == <<"i", "d">>

f_author_id == <<"a", "u", "t", "h", "o", "r", "_", "i", "d">>

f_author == <<"a", "u", "t", "h", "o", "r">>

f_fullName == <<"f", "u", "l", "l", "N", "a", "m", "e">>

f_full_name == <<"f", "u", "l", "l", "_", "n", "a", "m", "e">>

f_createdAt == <<"c", "r", "e", "a", "t", "e", "d", "A", "t">>

f_count == <<"c", "o", "u", "n", "t">>

f_bestFriend == <<"b", "e", "s", "t", "F", "r", "i", "e", "n", "d">>

f_best_friend == <<"b", "e", "s", "t", "_", "f", "r", "i", "e", "n", "d">>

f_best_friend_id ==
    <<"b", "e", "s", "t", "_", "f", "r", "i", "e", "n", "d", "_", "i", "d">>

\* Model classes.  SubArticle is a subclass of Article (single-table
\* inheritance: same table, one more column, count).
NoModel == "None"

Article == "Article"

SubArticle == "SubArticle"

Person == "Person"

\* The classes isinstance() accepts for an instance of cls: cls and its bases.
Bases(cls) ==
    CASE cls = Article -> {Article}
      [] cls = SubArticle -> {SubArticle, Article}
      [] cls = Person -> {Person}

\* cls.__tablename__
tablename(cls) ==
    CASE cls \in {Article, SubArticle} ->
             <<"a", "r", "t", "i", "c", "l", "e", "s">>
      [] cls = Person -> <<"p", "e", "o", "p", "l", "e">>

\* cls.__mapper__.relationships, in declaration order: each relationship's
\* key and the names of its local (foreign-key) columns.  Person declares
\* two relationships whose keys differ only in form.
relationships(cls) ==
    CASE cls \in {Article, SubArticle} ->
             <<[key |-> f_author, local_columns |-> {f_author_id}]>>
      [] cls = Person ->
             <<[key |-> f_bestFriend, local_columns |-> {f_best_friend_id}],
               [key |-> f_best_friend, local_columns |-> {f_best_friend_id}]>>

\* References to the entity objects of the heap.
Refs == 1 .. 4

RefV(r) == [kind |-> "entity", v |-> <<r>>]

ListV(items) == [kind |-> "list", v |-> items]

\* The entity objects at the start: an Article; an Article whose truth value
\* is false (its class defines __len__ or __bool__); a SubArticle, which has
\* the column count and a plain date in createdAt; a Person with a string
\* key, a time of day in createdAt and no author_id.
InitHeap ==
    <<[cls |-> Article, truthy |-> TRUE,
       attrs |-> (f_id :> IntV(5)) @@ (f_author_id :> IntV(7))
                 @@ (f_author :> NoneV)
                 @@ (f_fullName :> StrV(<<"A", "n", "n">>))
                 @@ (f_full_name :> StrV(<<"a", "_", "b">>))
                 @@ (f_createdAt :> DateTimeV(2020, 1, 2, 3, 4, 5, 0, <<330>>))],
      [cls |-> Article, truthy |-> FALSE,
       attrs |-> (f_id :> IntV(0)) @@ (f_author_id :> NoneV)
                 @@ (f_author :> NoneV)
                 @@ (f_fullName :> StrV(<<>>))
                 @@ (f_full_name :> StrV(<<>>))
                 @@ (f_createdAt :> NoneV)],
      [cls |-> SubArticle, truthy |-> TRUE,
       attrs |-> (f_id :> IntV(6)) @@ (f_author_id :> IntV(7))
                 @@ (f_author :> NoneV)
                 @@ (f_fullName :> StrV(<<"S", "u", "b">>))
                 @@ (f_full_name :> BoolV(TRUE))
                 @@ (f_createdAt :> DateV(2020, 1, 2))
                 @@ (f_count :> IntV(3))],
      [cls |-> Person, truthy |-> TRUE,
       attrs |-> (f_id :> StrV(<<"p", "1">>))
                 @@ (f_fullName :> StrV(<<"P", "a", "t">>))
                 @@ (f_createdAt :> TimeV(3, 4, 5))]>>

\* ------------------------------------------------------------------------
\* State.

VARIABLES
    serializer,   \* the serializer class's attributes and __init__'s outcome
    heap,         \* the entity objects, by reference
    call          \* the call of a rendering method that has just returned or
                  \* raised, with its outcome, until the caller takes it

vars == <<serializer, heap, call>>

\* hasattr(x, name)
hasattr(x, name) ==
    CASE x.kind = "entity" -> name \in DOMAIN heap[x.v[1]].attrs
      [] x.kind = "list" -> name = f_count       \* list.count
      [] OTHER -> FALSE

\* getattr(resource, name) on an entity object.
getattr(resource, name) ==
    IF hasattr(resource, name)
    THEN Ok(heap[resource.v[1]].attrs[name])
    ELSE Raise("AttributeError")

\* bool(x)
bool(x) ==
    CASE x.kind = "NoneType" -> FALSE
      [] x.kind = "entity" -> heap[x.v[1]].truthy
      [] x.kind = "list" -> Len(x.v) > 0

\* isinstance(resource, model)
isinstance(resource, model) ==
    resource.kind = "entity" /\ model \in Bases(heap[resource.v[1]].cls)

\* type(resource), for an entity object.
ClassOf(resource) == heap[resource.v[1]].cls

\* ------------------------------------------------------------------------
\* JSONAPISerializer.

\* The class attributes of JSONAPISerializer itself: the defaults a subclass
\* overrides.
BaseClass ==
    [model |-> NoModel, primary_key |-> f_id, fields |-> <<>>, dasherize |-> TRUE]

\* __init__ without the check of the primary key.
init_model_only(self) == IF self.model = NoModel THEN "TypeError" ELSE "none"

\* __init__: the exception it raises, or "none".
init(self) ==
    IF self.model = NoModel THEN "TypeError"
    ELSE IF self.primary_key \notin Range(self.fields) THEN "ValueError"
    ELSE "none"

\* mapped_fields[x] and mapped_relationships[x]: the name a field or a
\* relationship is rendered under.
mapped(self, x) == IF self.dasherize THEN dasherize(underscore(x)) ELSE x

\* attrs_to_ignore without the relationship keys: the local columns only.
attrs_to_ignore_columns_only(resource) ==
    UNION {rel.local_columns : rel \in Range(relationships(ClassOf(resource)))}

\* attrs_to_ignore: for every relationship of the resource's mapper, the
\* names of its local columns and its key.
attrs_to_ignore(resource) ==
    UNION {rel.local_columns \cup {rel.key} :
               rel \in Range(relationships(ClassOf(resource)))}

\* The value stored for an attribute: a datetime.datetime as its isoformat(),
\* anything else as it is.
rendered_value(value) ==
    IF value.kind = "datetime" THEN StrV(isoformat(value)) ELSE value

\* The loop of _render_attributes over self.fields, from index i on, with
\* the dict built so far.
RECURSIVE render_attributes_loop(_, _, _, _)
render_attributes_loop(self, resource, i, attributes) ==
    IF i > Len(self.fields) THEN Ok(attributes)
    ELSE LET attribute == self.fields[i]
         IN  IF attribute = self.primary_key
             THEN render_attributes_loop(self, resource, i + 1, attributes)
             ELSE IF attribute \in attrs_to_ignore(resource)
             THEN Raise("AttributeError")
             ELSE LET got == getattr(resource, attribute)
                  IN  IF got.exc # "none" THEN got
                      ELSE render_attributes_loop(self, resource, i + 1,
                               DictSet(attributes, mapped(self, attribute),
                                       rendered_value(got.val)))

\* _render_attributes
render_attributes(self, resource) ==
    render_attributes_loop(self, resource, 1, <<>>)

\* '/{}/{}/relationships/{}'.format(type, id, name)
self_link(type, id, name) ==
    <<"/">> \o type \o <<"/">> \o Str(id)
        \o <<"/", "r", "e", "l", "a", "t", "i", "o", "n", "s", "h", "i", "p", "s", "/">>
        \o name

\* The related link built from the template of the self link.
related_link_as_self(type, id, name) == self_link(type, id, name)

\* '/{}/{}/{}'.format(type, id, name)
related_link(type, id, name) ==
    <<"/">> \o type \o <<"/">> \o Str(id) \o <<"/">> \o name

\* The loop of _render_relationships over the relationship keys.
RECURSIVE render_relationships_loop(_, _, _, _, _)
render_relationships_loop(self, resource, primary_key_val, i, rels) ==
    LET related_models == relationships(ClassOf(resource))
    IN  IF i > Len(related_models) THEN rels
        ELSE LET name == mapped(self, related_models[i].key)
                 type == tablename(ClassOf(resource))
             IN  render_relationships_loop(self, resource, primary_key_val, i + 1,
                     DictSet(rels, name,
                         [links |->
                             [self |-> self_link(type, primary_key_val, name),
                              related |-> related_link(type, primary_key_val, name)]]))

\* _render_relationships
render_relationships(self, resource) ==
    LET got == getattr(resource, self.primary_key)
    IN  IF got.exc # "none" THEN got
        ELSE Ok(render_relationships_loop(self, resource, got.val, 1, <<>>))

\* _render_resource
render_resource(self, resource) ==
    IF ~bool(resource) THEN Ok(NoneV)
    ELSE IF ~isinstance(resource, self.model) THEN Raise("TypeError")
    ELSE LET key == getattr(resource, self.primary_key)
             attributes == render_attributes(self, resource)
             rels == render_relationships(self, resource)
         IN  IF key.exc # "none" THEN key
             ELSE IF attributes.exc # "none" THEN attributes
             ELSE IF rels.exc # "none" THEN rels
             ELSE Ok([id |-> Str(key.val),
                      type |-> tablename(ClassOf(resource)),
                      attributes |-> attributes.val,
                      relationships |-> rels.val])

\* serialized['data'].insert(0, x) in place of append.
data_prepend(data, x) == <<x>> \o data

\* serialized['data'].append(x)
data_append(data, x) == Append(data, x)

\* `for resource in resources`: the members in iteration order, or the
\* TypeError of iterating an object that is not iterable.
iterate(resources) ==
    IF resources.kind = "list" THEN Ok(resources.v) ELSE Raise("TypeError")

\* The loop of serialize over the members of a collection.
RECURSIVE serialize_loop(_, _, _, _)
serialize_loop(self, members, i, data) ==
    IF i > Len(members) THEN Ok(data)
    ELSE LET one == render_resource(self, members[i])
         IN  IF one.exc # "none" THEN one
             ELSE serialize_loop(self, members, i + 1, data_append(data, one.val))

\* The document serialize returns around data.
document(data) ==
    [meta |-> [sqlalchemy_jsonapi_version |-> "4.0.9"],
     jsonapi |-> [version |-> "1.0"],
     data |-> data]

\* serialize
serialize(self, resources) ==
    LET data == IF hasattr(resources, f_count)
                THEN LET members == iterate(resources)
                     IN  IF members.exc # "none" THEN members
                         ELSE serialize_loop(self, members.val, 1, <<>>)
                ELSE render_resource(self, resources)
    IN  IF data.exc # "none" THEN data ELSE Ok(document(data.val))

\* A rendering method that removes the primary key from self.fields instead
\* of skipping it.
self_without_key(self) ==
    [self EXCEPT !.fields = SelectSeq(self.fields, LAMBDA f : f # self.primary_key)]

\* What a rendering method leaves in self: it reads model, primary_key,
\* fields and dasherize and assigns none of them.
self_after_render(self) == self

\* ------------------------------------------------------------------------
\* Inputs.

\* The sequences over S of length at most n without a repeated member.
RECURSIVE OrderedSets(_, _)
OrderedSets(S, n) ==
    IF n = 0 THEN {<<>>}
    ELSE LET shorter == OrderedSets(S, n - 1)
         IN  shorter \cup {Append(s, x) : <<s, x>> \in
                               {<<s, x>> \in shorter \X S : x \notin Range(s)}}

\* The sequences over S of length at most n.
RECURSIVE Lists(_, _)
Lists(S, n) ==
    IF n = 0 THEN {<<>>}
    ELSE LET shorter == Lists(S, n - 1)
         IN  shorter \cup {Append(s, x) : <<s, x>> \in shorter \X S}

\* The names a serializer class lists in fields.
FieldNames ==
    {f_id, f_author_id, f_author, f_fullName, f_full_name, f_createdAt}

\* The serializer classes: subclasses of JSONAPISerializer and the base
\* class itself.  fields is an ordered set of names.
SerializerClasses ==
    {[model |-> m, primary_key |-> k, fields |-> f, dasherize |-> d] :
        m \in {NoModel, Article}, k \in {f_id, f_author_id},
        f \in OrderedSets(FieldNames, MaxFields), d \in BOOLEAN}

\* The members of a collection: entities and None.
Members == {RefV(r) : r \in Refs} \cup {NoneV}

\* What serialize is called with: one entity, None, or a list.
SerializeInputs == Members \cup {ListV(s) : s \in Lists(Members, MaxLen)}

\* ------------------------------------------------------------------------
\* Actions.

NoSerializer ==
    [model |-> BaseClass.model, primary_key |-> BaseClass.primary_key,
     fields |-> BaseClass.fields, dasherize |-> BaseClass.dasherize,
     err |-> "unconstructed"]

NoCall == [op |-> "none", arg |-> NoneV, out |-> Ok(NoneV)]

Init ==
    /\ serializer = NoSerializer
    /\ heap = InitHeap
    /\ call = NoCall

\* The caller instantiates a serializer class, once.
Construct ==
    /\ serializer.err = "unconstructed"
    /\ \E cls \in SerializerClasses :
           serializer' = [model |-> cls.model, primary_key |-> cls.primary_key,
                          fields |-> cls.fields, dasherize |-> cls.dasherize,
                          err |-> init(cls)]
    /\ UNCHANGED <<heap, call>>

\* serializer.serialize(resources)
Serialize ==
    /\ serializer.err = "none"
    /\ call = NoCall
    /\ \E resources \in SerializeInputs :
           call' = [op |-> "serialize", arg |-> resources,
                    out |-> serialize(serializer, resources)]
    /\ serializer' = self_after_render(serializer)
    /\ UNCHANGED heap

\* serializer._render_resource(resource)
RenderResource ==
    /\ serializer.err = "none"
    /\ call = NoCall
    /\ \E resource \in Members :
           call' = [op |-> "render_resource", arg |-> resource,
                    out |-> render_resource(serializer, resource)]
    /\ serializer' = self_after_render(serializer)
    /\ UNCHANGED heap

\* serializer._render_attributes(resource)
RenderAttributes ==
    /\ serializer.err = "none"
    /\ call = NoCall
    /\ \E r \in Refs :
           call' = [op |-> "render_attributes", arg |-> RefV(r),
                    out |-> render_attributes(serializer, RefV(r))]
    /\ serializer' = self_after_render(serializer)
    /\ UNCHANGED heap

\* serializer._render_relationships(resource)
RenderRelationships ==
    /\ serializer.err = "none"
    /\ call = NoCall
    /\ \E r \in Refs :
           call' = [op |-> "render_relationships", arg |-> RefV(r),
                    out |-> render_relationships(serializer, RefV(r))]
    /\ serializer' = self_after_render(serializer)
    /\ UNCHANGED heap

\* The values the storage layer writes to fullName.
NewNames == {StrV(<<"A", "n", "n">>), StrV(<<"B", "o">>)}

\* Another party (the storage layer) changes an entity between calls.
MutateEntity ==
    /\ call = NoCall
    /\ \E v \in NewNames :
           /\ heap[1].attrs[f_fullName] # v
           /\ heap' = [heap EXCEPT ![1].attrs[f_fullName] = v]
    /\ UNCHANGED <<serializer, call>>

\* The caller takes the outcome of the call; the next call can start.
Return ==
    /\ call # NoCall
    /\ call' = NoCall
    /\ UNCHANGED <<serializer, heap>>

Next ==
    \/ Construct
    \/ Serialize
    \/ RenderResource
    \/ RenderAttributes
    \/ RenderRelationships
    \/ MutateEntity
    \/ Return

Spec == Init /\ [][Next]_vars

\* ------------------------------------------------------------------------
\* Properties.

Returned == call.out.exc = "none"

\* self.fields without the primary key, in order.
Exposed == SelectSeq(serializer.fields, LAMBDA f : f # serializer.primary_key)

\* C union {A.name} over the associations A the schema of the entity
\* declares, read off the schema.
ExclusionSet(resource) ==
    LET rels == relationships(ClassOf(resource))
    IN  {n \in FieldNames \cup {f_bestFriend, f_best_friend, f_best_friend_id} :
            \E i \in DOMAIN rels : n = rels[i].key \/ n \in rels[i].local_columns}

\* C1 as claimed: in every call of renderAttributes, a name of the exclusion
\* set that appears in fields -- the primary key included -- makes the call
\* raise AttributeError, and when the call returns no key of the result is
\* the rendered name of a name of the exclusion set.
C1_ExclusionForEveryField ==
    call.op = "render_attributes" =>
        /\ (\E f \in Range(serializer.fields) : f \in ExclusionSet(call.arg))
               => call.out.exc = "AttributeError"
        /\ Returned =>
               \A n \in ExclusionSet(call.arg) :
                   ~DictHas(call.out.val, mapped(serializer, n))

\* C1, amended: in every call of renderAttributes, a name of the exclusion
\* set that appears in fields and is not the primary key makes the call
\* raise AttributeError, and when the call returns every key of the result
\* is the rendered name of a field that is neither the primary key nor in
\* the exclusion set.  (The primary key is skipped before the exclusion
\* check, so a primary key that is a foreign-key column does not raise.)
C1_ExclusionExceptPrimaryKey ==
    call.op = "render_attributes" =>
        /\ (\E f \in Range(Exposed) : f \in ExclusionSet(call.arg))
               => call.out.exc = "AttributeError"
        /\ Returned =>
               \A i \in DOMAIN call.out.val :
                   \E f \in Range(Exposed) \ ExclusionSet(call.arg) :
                       call.out.val[i][1] = mapped(serializer, f)

\* A call of renderAttributes raised because a field other than the primary
\* key is in the exclusion set: every field is an attribute of the entity.
C1_Witness ==
    /\ call.op = "render_attributes"
    /\ call.out.exc = "AttributeError"
    /\ \E f \in Range(Exposed) : f \in ExclusionSet(call.arg)
    /\ \A f \in Range(serializer.fields) : hasattr(call.arg, f)

\* C2 as claimed: renderResource of a non-null entity whose class is not
\* exactly the serializer's model, a subclass included, raises TypeError.
C2_StrictTypeCheck ==
    (/\ call.op = "render_resource"
     /\ call.arg.kind = "entity"
     /\ ClassOf(call.arg) # serializer.model)
        => call.out.exc = "TypeError"

\* The outcome of rendering x as a singleton.
SingletonOutcome(x) ==
    LET one == render_resource(serializer, x)
    IN  IF one.exc # "none" THEN one ELSE Ok(document(one.val))

\* C3 as claimed: serialize renders a single entity instance as a singleton,
\* whatever attributes it carries; only a list yields a list in data.
C3_SingleEntityIsSingleton ==
    (call.op = "serialize" /\ call.arg.kind # "list")
        => call.out = SingletonOutcome(call.arg)

\* C4: when serialize returns for a list [e1, ..., en], data is the list
\* [renderResource(e1), ..., renderResource(en)], in that order and of that
\* length; for the empty list it is empty.
C4_CollectionOrder ==
    (call.op = "serialize" /\ call.arg.kind = "list" /\ Returned)
        => call.out.val.data =
               [i \in 1 .. Len(call.arg.v) |->
                    render_resource(serializer, call.arg.v[i]).val]

\* serialize returned for a list of two different entities that render
\* differently.
C4_Witness ==
    /\ call.op = "serialize" /\ call.arg.kind = "list" /\ Returned
    /\ Len(call.arg.v) = 2
    /\ call.arg.v[1].kind = "entity" /\ call.arg.v[2].kind = "entity"
    /\ bool(call.arg.v[1]) /\ bool(call.arg.v[2])
    /\ call.out.val.data[1] # call.out.val.data[2]

\* The lower-kebab-case form of each name of the schema, written out.
KebabName(f) ==
    CASE f = f_id -> <<"i", "d">>
      [] f = f_author -> <<"a", "u", "t", "h", "o", "r">>
      [] f = f_author_id -> <<"a", "u", "t", "h", "o", "r", "-", "i", "d">>
      [] f \in {f_fullName, f_full_name} ->
             <<"f", "u", "l", "l", "-", "n", "a", "m", "e">>
      [] f = f_createdAt -> <<"c", "r", "e", "a", "t", "e", "d", "-", "a", "t">>
      [] f \in {f_bestFriend, f_best_friend} ->
             <<"b", "e", "s", "t", "-", "f", "r", "i", "e", "n", "d">>

\* The name f is to be rendered under by the serializer.
ExpectedName(f) == IF serializer.dasherize THEN KebabName(f) ELSE f

\* The names the exposed fields are to be rendered under, in fields order.
ExpectedNames == [i \in DOMAIN Exposed |-> ExpectedName(Exposed[i])]

\* The value of attribute f of the entity as renderAttributes stores it.
ExpectedValue(resource, f) == rendered_value(heap[resource.v[1]].attrs[f])

\* s without the later occurrences of a repeated member.
RECURSIVE FirstOccurrences(_)
FirstOccurrences(s) ==
    IF s = <<>> THEN <<>>
    ELSE LET front == FirstOccurrences(SubSeq(s, 1, Len(s) - 1))
         IN  IF s[Len(s)] \in Range(front) THEN front
             ELSE Append(front, s[Len(s)])

\* C5 as claimed: when renderAttributes returns, the keys of the result are
\* the transformed names of the fields other than the primary key, in fields
\* order, and each field's transformed name maps to that field's value --
\* also for two fields that share the transformed name.
C5_EveryFieldRendered ==
    (call.op = "render_attributes" /\ Returned) =>
        /\ DictKeys(call.out.val) = ExpectedNames
        /\ \A i \in DOMAIN Exposed :
               DictGet(call.out.val, ExpectedNames[i])
                   = ExpectedValue(call.arg, Exposed[i])

\* C5, amended: when renderAttributes returns, the keys of the result are
\* the transformed names of the fields other than the primary key, each
\* once, in the order of their first occurrence, and each key maps to the
\* value of the last field, in fields order, that has this transformed name.
C5_LastFieldWins ==
    (call.op = "render_attributes" /\ Returned) =>
        /\ DictKeys(call.out.val) = FirstOccurrences(ExpectedNames)
        /\ \A j \in DOMAIN call.out.val :
               LET k == call.out.val[j][1]
                   last == CHOOSE i \in DOMAIN Exposed :
                               /\ ExpectedNames[i] = k
                               /\ \A h \in DOMAIN Exposed :
                                      ExpectedNames[h] = k => h <= i
               IN  call.out.val[j][2] = ExpectedValue(call.arg, Exposed[last])

\* renderAttributes returned, with dasherized names, for fields that hold
\* both fullName and full_name, whose values differ; the key is full-name.
C5_Witness ==
    /\ call.op = "render_attributes" /\ Returned
    /\ serializer.dasherize
    /\ {f_fullName, f_full_name} \subseteq Range(Exposed)
    /\ ExpectedValue(call.arg, f_fullName) # ExpectedValue(call.arg, f_full_name)
    /\ DictHas(call.out.val, <<"f", "u", "l", "l", "-", "n", "a", "m", "e">>)

\* "/<type>/<id>/relationships/<name>" and "/<type>/<id>/<name>", written
\* out from the type tag, the primary-key value and the name.
ExpectedLinks(resource, name) ==
    LET type == IF ClassOf(resource) = Person
                THEN <<"p", "e", "o", "p", "l", "e">>
                ELSE <<"a", "r", "t", "i", "c", "l", "e", "s">>
        key == heap[resource.v[1]].attrs[serializer.primary_key]
        id == CASE key = IntV(5) -> <<"5">>
                [] key = IntV(0) -> <<"0">>
                [] key = IntV(6) -> <<"6">>
                [] key = IntV(7) -> <<"7">>
                [] key = NoneV -> <<"N", "o", "n", "e">>
                [] key = StrV(<<"p", "1">>) -> <<"p", "1">>
        stem == <<"/">> \o type \o <<"/">> \o id \o <<"/">>
    IN  [self |-> stem \o <<"r", "e", "l", "a", "t", "i", "o", "n", "s", "h",
                            "i", "p", "s", "/">> \o name,
         related |-> stem \o name]

C7_TemporalValuesCoerced ==
    (call.op = "render_attributes" /\ Returned) =>
        \A i \in DOMAIN call.out.val :
            call.out.val[i][2].kind \notin {"date", "time", "datetime"}

Constructed == serializer.err # "unconstructed"

Again ==
    CASE call.op = "serialize" -> serialize(serializer, call.arg)
      [] call.op = "render_resource" -> render_resource(serializer, call.arg)
      [] call.op = "render_attributes" -> render_attributes(serializer, call.arg)
      [] call.op = "render_relationships" ->
             render_relationships(serializer, call.arg)

C10_NoNullInCollection ==
    (call.op = "serialize" /\ call.arg.kind = "list" /\ Returned) =>
        /\ Len(call.out.val.data) = Len(call.arg.v)
        /\ \A i \in DOMAIN call.out.val.data :
               DOMAIN call.out.val.data[i]
                   = {"id", "type", "attributes", "relationships"}

====
